---- MODULE Spec2Model ----
(***************************************************************************)
(* Tutor Connect (src/App.tsx): a browser attendance tracker.  The model   *)
(* holds the gateway's two tables, the App-level roster hook, the login    *)
(* screen, the Dashboard's state and its requests in flight.               *)
(***************************************************************************)
EXTENDS Integers, Sequences, FiniteSets, TLC

(***************************************************************************)
(* Date.  A Date value is kept as its local fields <<year, month 0..11,    *)
(* day>>; the time of day plays no part in the program.  The constructor   *)
(* carries a month or a day outside its range over into the neighbouring   *)
(* years and months, as ECMAScript's MakeDay does.                         *)
(***************************************************************************)
IsLeapYear(y) == (y % 4 = 0 /\ y % 100 # 0) \/ y % 400 = 0

\* Days before the first of month m (0-based) in a year, leap or not.
MonthStart(m, leap) ==
    LET base == <<0, 31, 59, 90, 120, 151, 181, 212, 243, 273, 304, 334, 365>>
    IN  base[m + 1] + (IF leap /\ m >= 2 THEN 1 ELSE 0)

MonthLength(y, m) ==
    MonthStart(m + 1, IsLeapYear(y)) - MonthStart(m, IsLeapYear(y))

RECURSIVE CarryDay(_, _, _)
CarryDay(y, m, d) ==
    IF d < 1
    THEN LET py == IF m = 0 THEN y - 1 ELSE y
             pm == IF m = 0 THEN 11 ELSE m - 1
         IN  CarryDay(py, pm, d + MonthLength(py, pm))
    ELSE IF d > MonthLength(y, m)
    THEN CarryDay(IF m = 11 THEN y + 1 ELSE y, IF m = 11 THEN 0 ELSE m + 1,
                  d - MonthLength(y, m))
    ELSE <<y, m, d>>

\* new Date(year, month, date): month and date may lie outside their ranges.
NewDate(year, month, date) == CarryDay(year + (month \div 12), month % 12, date)

GetFullYear(t) == t[1]

\* getMonth(): 0..11
GetMonth(t) == t[2]

\* getDate(): 1..31
GetDate(t) == t[3]

\* Days from 1970-01-01 to the first of January of year y.
DayFromYear(y) ==
    365 * (y - 1970) + ((y - 1969) \div 4) - ((y - 1901) \div 100)
        + ((y - 1601) \div 400)

\* getDay(): 0 = Sunday; 1970-01-01 was a Thursday.
GetDay(t) ==
    (DayFromYear(t[1]) + MonthStart(t[2], IsLeapYear(t[1])) + t[3] - 1 + 4) % 7

\* date.setMonth(month, date)
SetMonth(t, month, date) == NewDate(GetFullYear(t), month, date)

(***************************************************************************)
(* Strings that are built or read character by character are sequences of  *)
(* one-character strings.                                                  *)
(***************************************************************************)
Digits == <<"0", "1", "2", "3", "4", "5", "6", "7", "8", "9">>

RECURSIVE String(_)
\* String(n) for a number n >= 0: its decimal digits.
String(n) ==
    IF n < 10 THEN <<Digits[n + 1]>>
    ELSE String(n \div 10) \o <<Digits[(n % 10) + 1]>>

\* s.padStart(len, "0")
RECURSIVE padStart(_, _)
padStart(s, len) == IF Len(s) >= len THEN s ELSE padStart(<<"0">> \o s, len)

\* `${year}-${String(month + 1).padStart(2,'0')}-${String(day).padStart(2,'0')}`
DateStr(year, month, day) ==
    String(year) \o <<"-">> \o padStart(String(month + 1), 2) \o <<"-">>
        \o padStart(String(day), 2)

\* Reading a date literal: the fields between the hyphens, as numbers.
RECURSIVE ParseNumber(_, _)
ParseNumber(s, acc) ==
    IF s = <<>> THEN acc
    ELSE ParseNumber(Tail(s),
                     10 * acc + (CHOOSE i \in 0..9 : Digits[i + 1] = Head(s)))

RECURSIVE SplitFields(_, _, _)
SplitFields(s, cur, done) ==
    IF s = <<>> THEN Append(done, cur)
    ELSE IF Head(s) = "-" THEN SplitFields(Tail(s), <<>>, Append(done, cur))
    ELSE SplitFields(Tail(s), Append(cur, Head(s)), done)

(***************************************************************************)
(* Names: sequences over a small alphabet, ordered as the alphabet is.     *)
(***************************************************************************)
Alphabet == <<" ", "A", "R", "Z">>

CharRank(c) == CHOOSE i \in 1..Len(Alphabet) : Alphabet[i] = c

RECURSIVE NameLE(_, _)
NameLE(a, b) ==
    IF a = <<>> THEN TRUE
    ELSE IF b = <<>> THEN FALSE
    ELSE IF Head(a) = Head(b) THEN NameLE(Tail(a), Tail(b))
    ELSE CharRank(Head(a)) < CharRank(Head(b))

RECURSIVE TrimStart(_)
TrimStart(s) == IF s # <<>> /\ Head(s) = " " THEN TrimStart(Tail(s)) ELSE s

RECURSIVE TrimEnd(_)
TrimEnd(s) ==
    IF s # <<>> /\ s[Len(s)] = " " THEN TrimEnd(SubSeq(s, 1, Len(s) - 1)) ELSE s

\* A faulty variant of Trim: trimStart(), the trailing blanks kept.
TrimStartOnly(s) == TrimStart(s)

\* newName.trim()
Trim(s) == TrimEnd(TrimStart(s))

(***************************************************************************)
(* The gateway: the two tables of the schema and the five requests the     *)
(* program sends.  A DATE is held as <<year, month 1..12, day>>.           *)
(***************************************************************************)
\* date DATE NOT NULL: a literal is accepted when it names a calendar day.
ValidDate(d) ==
    /\ Len(d) = 3
    /\ d[2] \in 1..12
    /\ d[3] >= 1
    /\ d[3] <= MonthLength(d[1], d[2] - 1)

DateIn(s) == LET f == SplitFields(s, <<>>, <<>>)
             IN  [i \in 1..Len(f) |-> ParseNumber(f[i], 0)]

\* A DATE column as the gateway returns it: YYYY-MM-DD.
DateOut(d) ==
    String(d[1]) \o <<"-">> \o padStart(String(d[2]), 2) \o <<"-">>
        \o padStart(String(d[3]), 2)

DateLE(a, b) ==
    \/ a[1] < b[1]
    \/ a[1] = b[1] /\ a[2] < b[2]
    \/ a[1] = b[1] /\ a[2] = b[2] /\ a[3] <= b[3]

\* A faulty variant of SelectStudentsOrdered: the rows in id order.
SelectStudentsById(rows) ==
    LET n == Cardinality(rows)
    IN  { s \in [1..n -> rows] : \A i \in 1..(n - 1) : s[i].id < s[i + 1].id }

\* from('students').select('*').order('name', {ascending: true}): the rows
\* in name order; rows of equal name come in either order.
SelectStudentsOrdered(rows) ==
    LET n == Cardinality(rows)
    IN  { s \in [1..n -> rows] :
            /\ \A i, j \in 1..n : i # j => s[i] # s[j]
            /\ \A i \in 1..(n - 1) : NameLE(s[i].name, s[i + 1].name) }

\* from('attendance').select('*').eq('student_id', id).gte('date', lo).lte('date', hi)
SelectAttendance(rows, id, lo, hi) ==
    { r \in rows : /\ r.student_id = id
                   /\ DateLE(DateIn(lo), r.date)
                   /\ DateLE(r.date, DateIn(hi)) }

\* A faulty variant of UpsertAttendance: a plain insert, the conflict ignored.
InsertAttendance(rows, row) == rows \cup {row}

\* upsert(row, {onConflict: 'student_id,date'}) under UNIQUE(student_id, date)
UpsertAttendance(rows, row) ==
    { r \in rows : ~(r.student_id = row.student_id /\ r.date = row.date) }
        \cup {row}

\* The upsert is rejected when the date names no day or the student row is
\* gone (student_id REFERENCES students(id)).
UpsertAccepted(studentRows, req) ==
    /\ ValidDate(DateIn(req.date))
    /\ \E s \in studentRows : s.id = req.student_id

\* from('students').delete().eq('id', id), with ON DELETE CASCADE
DeleteStudentRows(studentRows, id) == { s \in studentRows : s.id # id }

DeleteAttendanceCascade(rows, id) == { r \in rows : r.student_id # id }

(***************************************************************************)
(* Program constants, inputs and bounds.                                   *)
(***************************************************************************)
TUTOR_SECRET_CODE == "Tutor2042!"

STATUS_OPTIONS == {"present", "absent", "holiday", "extra"}

\* What a user types or picks.
CodeInputs == {"", "Tutor2042!", "tutor2042!"}
StatusInputs == {"present", "absent"}
CommentInputs == {"", "sick"}
NameInputs == {<<>>, <<" ">>, <<" ", "Z", " ">>}

\* The day on which a run takes place: 31 January 2024, or for the calendar's
\* specification any day of a few years (leap, common and century years).
Today == NewDate(2024, 0, 31)

CalendarYears == {2000, 2023, 2024, 2100}

TodayInputs ==
    { <<y, m, d>> : y \in CalendarYears, m \in 0..11, d \in 1..31 }
        \cap { NewDate(y, m, d) : y \in CalendarYears, m \in 0..11, d \in 1..31 }

\* A tutor clicks the days 1..MaxEditDay of a month.
MaxEditDay == 1
\* Attendance requests in flight at once.
MaxFetches == 2

\* Month navigation reaches the NavSpan months after Today's month.
NavSpan == 1
\* Upserts issued in a run.
MaxSaves == 1
\* Student identities the gateway assigns in a run, the seeded ones included.
MaxIds == 3
\* Roster requests (inserts, deletes and the refetches they start) in flight.
MaxRosterRequests == 2

NoId == 0
NoDay == 0

SeedStudents ==
    { [id |-> 1, name |-> <<"R">>], [id |-> 2, name |-> <<"A">>] }

SeedAttendance ==
    { [student_id |-> 2, date |-> <<2024, 1, 31>>, status |-> "absent",
       comment |-> "sick"],
      [student_id |-> 2, date |-> <<2024, 2, 1>>, status |-> "absent",
       comment |-> ""],
      [student_id |-> 1, date |-> <<2024, 1, 31>>, status |-> "present",
       comment |-> ""] }

NoUser == [role |-> "none", id |-> NoId, name |-> <<>>]
TutorUser == [role |-> "tutor", id |-> NoId, name |-> <<>>]
ParentUser(s) == [role |-> "parent", id |-> s.id, name |-> s.name]

VARIABLES
    today,               \* what new Date() returns during the run
    dbStudents,          \* gateway: the students table
    dbAttendance,        \* gateway: the attendance table
    nextId,              \* gateway: identities assigned so far
    students,            \* useSupabaseData: the roster held in memory
    isLoaded,            \* useSupabaseData: the loaded flag
    rosterFetches,       \* roster requests in flight
    user,                \* App: the session identity
    tutorCode,           \* LoginScreen
    selectedStudent,     \* LoginScreen: the picker's value
    error,               \* LoginScreen: the message shown
    currentDate,         \* Dashboard: the Date of the viewed month
    selectedStudentId,   \* Dashboard
    attendance,          \* Dashboard: date string -> record
    owner,               \* history: date string -> the student each entry was read or written for
    isLoadingAttendance, \* Dashboard
    isModalOpen,         \* Dashboard
    selectedDay,         \* Dashboard: NoDay is null
    isStudentManagerOpen,\* Dashboard
    status,              \* AttendanceModal: working status
    comment,             \* AttendanceModal: working comment
    newName,             \* StudentManager: the name input
    fetches,             \* attendance requests in flight
    saves,               \* upserts in flight
    inserts,             \* student inserts in flight
    deletes,             \* student deletes in flight
    nSaves,              \* upserts issued so far
    lastEvent            \* history: the step taken last

gateway == <<dbStudents, dbAttendance, nextId>>
hook == <<students, isLoaded, rosterFetches>>
login == <<tutorCode, selectedStudent, error>>
view == <<currentDate, selectedStudentId, attendance, owner, isLoadingAttendance>>
dialogs == <<isModalOpen, selectedDay, isStudentManagerOpen>>
modal == <<status, comment>>
net == <<fetches, saves, inserts, deletes, nSaves>>
vars == <<today, gateway, hook, user, login, view, dialogs, modal, newName, net,
          lastEvent>>

isTutor == user.role = "tutor"
Mounted == user.role # "none"
RosterIds(list) == { list[i].id : i \in 1..Len(list) }
EmptyAttendance == [k \in {} |-> {}]

\* An open dialog covers the page (fixed inset-0, z-50): what lies under it
\* takes no clicks.
PageUsable == Mounted /\ ~isModalOpen /\ ~isStudentManagerOpen

(***************************************************************************)
(* useSupabaseData and the Dashboard's effects.                            *)
(***************************************************************************)
\* A faulty variant of FetchRequest: getDay() for getDate(), the weekday of
\* the month's last day taken for its number.
FetchRequestUsingGetDay(studentId, date) ==
    LET year    == GetFullYear(date)
        month   == GetMonth(date)
        lastDay == GetDay(NewDate(year, month + 1, 0))
    IN  [student_id |-> studentId,
         firstDay   |-> String(year) \o <<"-">> \o padStart(String(month + 1), 2)
                            \o <<"-", "0", "1">>,
         lastDayOfMonth |-> DateStr(year, month, lastDay)]

\* The request fetchAttendanceForMonth sends for (studentId, date).
FetchRequest(studentId, date) ==
    LET year    == GetFullYear(date)
        month   == GetMonth(date)
        lastDay == GetDate(NewDate(year, month + 1, 0))
    IN  [student_id |-> studentId,
         firstDay   |-> String(year) \o <<"-">> \o padStart(String(month + 1), 2)
                            \o <<"-", "0", "1">>,
         lastDayOfMonth |-> DateStr(year, month, lastDay)]

\* Whether the model's bound on requests in flight lets the effect run.
CanFetch(studentId, date) ==
    \/ studentId = NoId
    \/ FetchRequest(studentId, date) \in fetches
    \/ Cardinality(fetches) < MaxFetches

\* The effect on [selectedStudentId, currentDate]: fetch, or clear.
FetchEffect(studentId, date) ==
    IF studentId # NoId
    THEN /\ fetches' = fetches \cup {FetchRequest(studentId, date)}
         /\ isLoadingAttendance' = TRUE
         /\ UNCHANGED <<attendance, owner>>
    ELSE /\ attendance' = EmptyAttendance
         /\ owner' = EmptyAttendance
         /\ isLoadingAttendance' = FALSE
         /\ UNCHANGED fetches

\* The effect on [students, selectedStudentId, isTutor]: the selection it leaves.
RosterEffect(tutor, list, selected) ==
    IF tutor /\ Len(list) > 0 /\ selected \notin RosterIds(list)
    THEN list[1].id
    ELSE selected

\* currentRecordForModal: the set holding the record, or the empty set.
currentRecordForModal(att, date, day, studentId) ==
    IF day = NoDay \/ studentId = NoId THEN {}
    ELSE LET dateStr == DateStr(GetFullYear(date), GetMonth(date), day)
         IN  IF dateStr \in DOMAIN att THEN {att[dateStr]} ELSE {}

\* A faulty variant of ModalEffect: the working values reset only from a
\* stored record, and kept when the day has none.
ModalEffectKeepingValues(open, rerun, record) ==
    IF open /\ rerun /\ record # {}
    THEN /\ status' = (CHOOSE r \in record : TRUE).status
         /\ comment' = (CHOOSE r \in record : TRUE).comment
    ELSE UNCHANGED modal

\* AttendanceModal's effect on [isOpen, currentRecord]: it seeds the working
\* values when it runs with the modal open.
ModalEffect(open, rerun, record) ==
    IF open /\ rerun
    THEN /\ status' = IF record = {} THEN "present"
                      ELSE (CHOOSE r \in record : TRUE).status
         /\ comment' = IF record = {} THEN ""
                       ELSE (CHOOSE r \in record : TRUE).comment
    ELSE UNCHANGED modal

\* The state once the App has mounted and its effect has called fetchStudents.
Mount ==
    /\ dbStudents = SeedStudents
    /\ dbAttendance = SeedAttendance
    /\ nextId = 2
    /\ students = <<>>
    /\ isLoaded = FALSE
    /\ rosterFetches = 1
    /\ user = NoUser
    /\ tutorCode = ""
    /\ selectedStudent = NoId
    /\ error = ""
    /\ currentDate = today
    /\ selectedStudentId = NoId
    /\ attendance = EmptyAttendance
    /\ owner = EmptyAttendance
    /\ isLoadingAttendance = TRUE
    /\ isModalOpen = FALSE
    /\ selectedDay = NoDay
    /\ isStudentManagerOpen = FALSE
    /\ status = "present"
    /\ comment = ""
    /\ newName = <<>>
    /\ fetches = {}
    /\ saves = {}
    /\ inserts = {}
    /\ deletes = {}
    /\ nSaves = 0
    /\ lastEvent = "mount"

Init == today = Today /\ Mount

InitCalendar == today \in TodayInputs /\ Mount

\* After a roster change the tutor's Dashboard may move its selection, and
\* then fetches for it.
RosterChanged(list) ==
    LET selected == RosterEffect(isTutor, list, selectedStudentId)
    IN  /\ selectedStudentId' = selected
        /\ IF selected # selectedStudentId
           THEN CanFetch(selected, currentDate) /\ FetchEffect(selected, currentDate)
           ELSE UNCHANGED <<attendance, owner, isLoadingAttendance, fetches>>

\* fetchStudents resolves with the rows.
RosterFetchOk ==
    /\ rosterFetches > 0
    /\ \E list \in SelectStudentsOrdered(dbStudents) :
          /\ students' = list
          /\ RosterChanged(list)
    /\ isLoaded' = TRUE
    /\ rosterFetches' = rosterFetches - 1
    /\ lastEvent' = "rosterOk"
    /\ UNCHANGED <<today, gateway, user, login, currentDate, dialogs, modal, newName,
                   saves, inserts, deletes, nSaves>>

\* fetchStudents resolves with an error.
RosterFetchErr ==
    /\ rosterFetches > 0
    /\ isLoaded' = TRUE
    /\ rosterFetches' = rosterFetches - 1
    /\ lastEvent' = "rosterErr"
    /\ UNCHANGED <<today, gateway, students, user, login, view, dialogs, modal,
                   newName, fetches, saves, inserts, deletes, nSaves>>

(***************************************************************************)
(* App.handleLogin and the Dashboard's mount.                              *)
(***************************************************************************)
\* setUser(u); the Dashboard mounts with its initial state and its effects
\* run; the LoginScreen and its state are gone.
handleLogin(u) ==
    LET tutor    == u.role = "tutor"
        selected == IF tutor /\ Len(students) > 0 THEN students[1].id ELSE u.id
    IN  /\ user' = u
        /\ currentDate' = today
        /\ selectedStudentId' = selected
        /\ IF selected # NoId
           THEN /\ fetches' = {FetchRequest(selected, today)}
                /\ isLoadingAttendance' = TRUE
           ELSE /\ fetches' = {}
                /\ isLoadingAttendance' = FALSE
        /\ attendance' = EmptyAttendance
        /\ owner' = EmptyAttendance
        /\ isModalOpen' = FALSE
        /\ selectedDay' = NoDay
        /\ isStudentManagerOpen' = FALSE
        /\ status' = "present"
        /\ comment' = ""
        /\ newName' = <<>>
        /\ tutorCode' = ""
        /\ selectedStudent' = NoId
        /\ error' = ""

OnLoginScreen == isLoaded /\ user.role = "none"

\* The code input's onChange.
SetTutorCode(c) ==
    /\ OnLoginScreen
    /\ c # tutorCode
    /\ tutorCode' = c
    /\ error' = ""
    /\ lastEvent' = "setTutorCode"
    /\ UNCHANGED <<today, gateway, hook, user, selectedStudent, view, dialogs, modal,
                   newName, net>>

\* The student picker's onChange: one of the options rendered.
SetSelectedStudent(id) ==
    /\ OnLoginScreen
    /\ id \in RosterIds(students)
    /\ id # selectedStudent
    /\ selectedStudent' = id
    /\ error' = ""
    /\ lastEvent' = "setSelectedStudent"
    /\ UNCHANGED <<today, gateway, hook, user, tutorCode, view, dialogs, modal,
                   newName, net>>

\* A faulty variant of TutorCodeMatches: the case of the letters ignored.
TutorCodeMatchesAnyCase(code) == code \in {TUTOR_SECRET_CODE, "tutor2042!"}

\* tutorCode === TUTOR_SECRET_CODE
TutorCodeMatches(code) == code = TUTOR_SECRET_CODE

handleTutorLogin ==
    /\ OnLoginScreen
    /\ lastEvent' = "tutorLogin"
    /\ IF TutorCodeMatches(tutorCode)
       THEN /\ handleLogin(TutorUser)
            /\ UNCHANGED <<today, gateway, hook, saves, inserts, deletes, nSaves>>
       ELSE /\ error' = "Invalid secret code."
            /\ UNCHANGED <<today, gateway, hook, user, tutorCode, selectedStudent,
                           view, dialogs, modal, newName, net>>

\* A faulty variant of FindStudent: the first student when none is found.
FindStudentOrFirst(list, id) ==
    LET found == { list[i] : i \in { j \in 1..Len(list) : list[j].id = id } }
    IN  IF found = {} /\ Len(list) > 0 THEN {list[1]} ELSE found

\* students.find(s => s.id === selectedStudent): the entries found.
FindStudent(list, id) == { list[i] : i \in { j \in 1..Len(list) : list[j].id = id } }

handleParentLogin ==
    /\ OnLoginScreen
    /\ lastEvent' = "parentLogin"
    /\ LET student == FindStudent(students, selectedStudent)
       IN  IF student # {}
           THEN /\ handleLogin(ParentUser(CHOOSE s \in student : TRUE))
                /\ UNCHANGED <<today, gateway, hook, saves, inserts, deletes, nSaves>>
           ELSE /\ error' = "Please select a student."
                /\ UNCHANGED <<today, gateway, hook, user, tutorCode, selectedStudent,
                               view, dialogs, modal, newName, net>>

\* setUser(null): the Dashboard unmounts.  What it had in flight still
\* reaches the gateway, but no longer finds the component it would update.
handleLogout ==
    /\ PageUsable
    /\ user' = NoUser
    /\ currentDate' = today
    /\ selectedStudentId' = NoId
    /\ attendance' = EmptyAttendance
    /\ owner' = EmptyAttendance
    /\ isLoadingAttendance' = TRUE
    /\ isModalOpen' = FALSE
    /\ selectedDay' = NoDay
    /\ isStudentManagerOpen' = FALSE
    /\ status' = "present"
    /\ comment' = ""
    /\ newName' = <<>>
    /\ fetches' = {}
    /\ saves' = { [r EXCEPT !.live = FALSE] : r \in saves }
    /\ inserts' = { [r EXCEPT !.live = FALSE] : r \in inserts }
    /\ lastEvent' = "logout"
    /\ UNCHANGED <<today, gateway, hook, login, deletes, nSaves>>

(***************************************************************************)
(* Dashboard: navigation and attendance.                                   *)
(***************************************************************************)
MonthIndex(t) == 12 * GetFullYear(t) + GetMonth(t)

\* A faulty variant of NextMonthDate: setMonth(month) alone, the day kept.
NextMonthKeepingDay(prev, delta) ==
    SetMonth(prev, GetMonth(prev) + delta, GetDate(prev))

\* prev => { newDate = new Date(prev); newDate.setMonth(getMonth() + delta, 1) }
NextMonthDate(prev, delta) == SetMonth(prev, GetMonth(prev) + delta, 1)

changeMonth(delta) ==
    /\ PageUsable
    /\ LET newDate == NextMonthDate(currentDate, delta)
       IN  /\ MonthIndex(newDate) - MonthIndex(today) \in 0..NavSpan
           /\ CanFetch(selectedStudentId, newDate)
           /\ currentDate' = newDate
           /\ FetchEffect(selectedStudentId, newDate)
           /\ LET old == currentRecordForModal(attendance, currentDate,
                                               selectedDay, selectedStudentId)
                  new == currentRecordForModal(attendance', newDate,
                                               selectedDay, selectedStudentId)
              IN  ModalEffect(isModalOpen, old # {} \/ new # {}, new)
    /\ lastEvent' = IF delta = 1 THEN "nextMonth" ELSE "prevMonth"
    /\ UNCHANGED <<today, gateway, hook, user, login, selectedStudentId, dialogs,
                   newName, saves, inserts, deletes, nSaves>>

\* The tutor's student picker: onChange={e => setSelectedStudentId(e.target.value)}
SelectStudent(id) ==
    /\ PageUsable
    /\ isTutor
    /\ id \in RosterIds(students)
    /\ id # selectedStudentId
    /\ CanFetch(id, currentDate)
    /\ selectedStudentId' = id
    /\ FetchEffect(id, currentDate)
    /\ LET old == currentRecordForModal(attendance, currentDate, selectedDay,
                                        selectedStudentId)
           new == currentRecordForModal(attendance', currentDate, selectedDay,
                                        id)
       IN  ModalEffect(isModalOpen, old # new, new)
    /\ lastEvent' = "selectStudent"
    /\ UNCHANGED <<today, gateway, hook, user, login, currentDate, dialogs, newName,
                   saves, inserts, deletes, nSaves>>

\* The Calendar is rendered unless the tutor's roster is empty; while
\* isLoading its overlay (absolute inset-0, z-10) covers the day cells.
CalendarUsable ==
    /\ PageUsable
    /\ ~(isTutor /\ Len(students) = 0)
    /\ ~isLoadingAttendance

daysInMonth(date) == GetDate(NewDate(GetFullYear(date), GetMonth(date) + 1, 0))

\* setSelectedDay(day); setIsModalOpen(true); the modal's effect follows.
handleDayClick(day) ==
    /\ selectedDay' = day
    /\ isModalOpen' = TRUE
    /\ LET old == currentRecordForModal(attendance, currentDate, selectedDay,
                                        selectedStudentId)
           new == currentRecordForModal(attendance, currentDate, day,
                                        selectedStudentId)
       IN  ModalEffect(TRUE, ~isModalOpen \/ (day # selectedDay /\ (old # {} \/ new # {})),
                       new)
    /\ lastEvent' = "dayClick"
    /\ UNCHANGED <<today, gateway, hook, user, login, view, isStudentManagerOpen,
                   newName, net>>

\* A faulty variant of onDayCellClick: the click passed on for every role.
onDayCellClickAnyRole(day) ==
    /\ CalendarUsable
    /\ day \in 1..daysInMonth(currentDate)
    /\ handleDayClick(day)

\* A day cell's onClick: isTutor && onDayClick(day)
onDayCellClick(day) ==
    /\ CalendarUsable
    /\ day \in 1..daysInMonth(currentDate)
    /\ isTutor
    /\ handleDayClick(day)

\* The modal takes pointer events only while it is open.
ModalUsable == isTutor /\ isModalOpen

SetStatus(id) ==
    /\ ModalUsable
    /\ id # status
    /\ status' = id
    /\ lastEvent' = "setStatus"
    /\ UNCHANGED <<today, gateway, hook, user, login, view, dialogs, comment,
                   newName, net>>

SetComment(c) ==
    /\ ModalUsable
    /\ c # comment
    /\ comment' = c
    /\ lastEvent' = "setComment"
    /\ UNCHANGED <<today, gateway, hook, user, login, view, dialogs, status,
                   newName, net>>

\* Cancel: onClose={() => setIsModalOpen(false)}
CloseModal ==
    /\ ModalUsable
    /\ isModalOpen' = FALSE
    /\ lastEvent' = "closeModal"
    /\ UNCHANGED <<today, gateway, hook, user, login, view, selectedDay,
                   isStudentManagerOpen, modal, newName, net>>

\* Save: handleSaveAttendance up to its await.
SaveRequest ==
    [student_id |-> selectedStudentId,
     date       |-> DateStr(GetFullYear(currentDate), GetMonth(currentDate),
                            selectedDay),
     status     |-> status,
     comment    |-> comment,
     live       |-> TRUE]

handleSaveAttendance ==
    /\ ModalUsable
    /\ selectedDay # NoDay
    /\ nSaves < MaxSaves
    /\ saves' = saves \cup {SaveRequest}
    /\ nSaves' = nSaves + 1
    /\ lastEvent' = "save"
    /\ UNCHANGED <<today, gateway, hook, user, login, view, dialogs, modal, newName,
                   fetches, inserts, deletes>>

\* The attendance row an upsert request writes.
SavedRow(req) ==
    [student_id |-> req.student_id, date |-> DateIn(req.date),
     status |-> req.status, comment |-> req.comment]

\* {...prev, [dateStr]: record}
MergeRecord(prev, dateStr, record) ==
    [k \in DOMAIN prev \cup {dateStr} |-> IF k = dateStr THEN record ELSE prev[k]]

\* A faulty variant of AfterSave: the record merged whatever the outcome.
AfterSaveIgnoringError(req, failed) ==
    IF req.live
    THEN /\ attendance' = MergeRecord(attendance, req.date,
                [status |-> req.status, comment |-> req.comment])
         /\ owner' = MergeRecord(owner, req.date, req.student_id)
         /\ isModalOpen' = FALSE
         /\ selectedDay' = NoDay
    ELSE UNCHANGED <<attendance, owner, isModalOpen, selectedDay>>

\* After the await: what the Dashboard does with the upsert's outcome.
AfterSave(req, failed) ==
    IF req.live
    THEN /\ IF failed
            THEN UNCHANGED <<attendance, owner>>
            ELSE /\ attendance' = MergeRecord(attendance, req.date,
                        [status |-> req.status, comment |-> req.comment])
                 /\ owner' = MergeRecord(owner, req.date, req.student_id)
         /\ isModalOpen' = FALSE
         /\ selectedDay' = NoDay
    ELSE UNCHANGED <<attendance, owner, isModalOpen, selectedDay>>

\* The gateway applies the upsert and the await resolves without an error.
SaveOk(req) ==
    /\ req \in saves
    /\ UpsertAccepted(dbStudents, req)
    /\ dbAttendance' = UpsertAttendance(dbAttendance, SavedRow(req))
    /\ saves' = saves \ {req}
    /\ AfterSave(req, FALSE)
    /\ lastEvent' = "saveOk"
    /\ UNCHANGED <<today, dbStudents, nextId, hook, user, login, currentDate,
                   selectedStudentId, isLoadingAttendance,
                   isStudentManagerOpen, modal, newName, fetches, inserts,
                   deletes, nSaves>>

\* The gateway rejects the upsert, or the request fails.
SaveErr(req) ==
    /\ req \in saves
    /\ saves' = saves \ {req}
    /\ AfterSave(req, TRUE)
    /\ lastEvent' = "saveErr"
    /\ UNCHANGED <<today, gateway, hook, user, login, currentDate, selectedStudentId,
                   isLoadingAttendance, isStudentManagerOpen, modal, newName,
                   fetches, inserts, deletes, nSaves>>

\* newAttendanceData: one entry per row, keyed by the row's date.
BuildAttendance(data) ==
    [k \in { DateOut(r.date) : r \in data } |->
        LET r == CHOOSE q \in data : DateOut(q.date) = k
        IN  [status |-> r.status, comment |-> r.comment]]

\* A variant of FetchOk that drops the rows of a request which is no longer
\* the one for the selected student and the viewed month.
FetchOkIgnoringStale(req) ==
    /\ req \in fetches
    /\ fetches' = fetches \ {req}
    /\ LET data == SelectAttendance(dbAttendance, req.student_id, req.firstDay,
                                    req.lastDayOfMonth)
       IN  IF req = FetchRequest(selectedStudentId, currentDate)
           THEN /\ attendance' = BuildAttendance(data)
                /\ owner' = [k \in DOMAIN attendance' |-> req.student_id]
           ELSE UNCHANGED <<attendance, owner>>
    /\ isLoadingAttendance' = FALSE
    /\ LET old == currentRecordForModal(attendance, currentDate, selectedDay,
                                        selectedStudentId)
           new == currentRecordForModal(attendance', currentDate, selectedDay,
                                        selectedStudentId)
       IN  ModalEffect(isModalOpen, old # {} \/ new # {}, new)
    /\ lastEvent' = "fetchOk"
    /\ UNCHANGED <<today, gateway, hook, user, login, currentDate, selectedStudentId,
                   dialogs, newName, saves, inserts, deletes, nSaves>>

\* The attendance request resolves with rows: setAttendance, then finally.
FetchOk(req) ==
    /\ req \in fetches
    /\ fetches' = fetches \ {req}
    /\ LET data == SelectAttendance(dbAttendance, req.student_id, req.firstDay,
                                    req.lastDayOfMonth)
       IN  /\ attendance' = BuildAttendance(data)
           /\ owner' = [k \in DOMAIN attendance' |-> req.student_id]
    /\ isLoadingAttendance' = FALSE
    /\ LET old == currentRecordForModal(attendance, currentDate, selectedDay,
                                        selectedStudentId)
           new == currentRecordForModal(attendance', currentDate, selectedDay,
                                        selectedStudentId)
       IN  ModalEffect(isModalOpen, old # {} \/ new # {}, new)
    /\ lastEvent' = "fetchOk"
    /\ UNCHANGED <<today, gateway, hook, user, login, currentDate, selectedStudentId,
                   dialogs, newName, saves, inserts, deletes, nSaves>>

\* The attendance request fails: catch, then finally.
FetchErr(req) ==
    /\ req \in fetches
    /\ fetches' = fetches \ {req}
    /\ isLoadingAttendance' = FALSE
    /\ lastEvent' = "fetchErr"
    /\ UNCHANGED <<today, gateway, hook, user, login, currentDate, selectedStudentId,
                   attendance, owner, dialogs, modal, newName, saves, inserts,
                   deletes, nSaves>>

(***************************************************************************)
(* Calendar.                                                               *)
(***************************************************************************)
\* A faulty variant of calendarGrid: the key built from getMonth() as it is.
calendarGridZeroBasedKeys(year, month, att) ==
    LET firstDayOfMonth == GetDay(NewDate(year, month, 1))
        days            == GetDate(NewDate(year, month + 1, 0))
        blank(i) == [key |-> <<"blank", i>>, type |-> "blank", day |-> NoDay,
                     record |-> {}]
        cell(day) ==
            LET dateStr == DateStr(year, month - 1, day)
            IN  [key |-> dateStr, type |-> "day", day |-> day,
                 record |-> IF dateStr \in DOMAIN att THEN {att[dateStr]}
                            ELSE {}]
    IN  [i \in 1..firstDayOfMonth |-> blank(i - 1)]
            \o [day \in 1..days |-> cell(day)]

\* calendarGrid: firstDayOfMonth blank cells, then a cell for each day.
calendarGrid(year, month, att) ==
    LET firstDayOfMonth == GetDay(NewDate(year, month, 1))
        days            == GetDate(NewDate(year, month + 1, 0))
        blank(i) == [key |-> <<"blank", i>>, type |-> "blank", day |-> NoDay,
                     record |-> {}]
        cell(day) ==
            LET dateStr == DateStr(year, month, day)
            IN  [key |-> dateStr, type |-> "day", day |-> day,
                 record |-> IF dateStr \in DOMAIN att THEN {att[dateStr]}
                            ELSE {}]
    IN  [i \in 1..firstDayOfMonth |-> blank(i - 1)]
            \o [day \in 1..days |-> cell(day)]

\* The grid the Calendar shows for the Dashboard's state.
Grid == calendarGrid(GetFullYear(currentDate), GetMonth(currentDate), attendance)

(***************************************************************************)
(* StudentManager.                                                         *)
(***************************************************************************)
OpenStudentManager ==
    /\ PageUsable
    /\ isTutor
    /\ isStudentManagerOpen' = TRUE
    /\ lastEvent' = "openManager"
    /\ UNCHANGED <<today, gateway, hook, user, login, view, isModalOpen, selectedDay,
                   modal, newName, net>>

\* Rendered only while open: if (!isOpen) return null
ManagerUsable == isTutor /\ isStudentManagerOpen

CloseStudentManager ==
    /\ ManagerUsable
    /\ isStudentManagerOpen' = FALSE
    /\ lastEvent' = "closeManager"
    /\ UNCHANGED <<today, gateway, hook, user, login, view, isModalOpen, selectedDay,
                   modal, newName, net>>

SetNewName(n) ==
    /\ ManagerUsable
    /\ n # newName
    /\ newName' = n
    /\ lastEvent' = "setNewName"
    /\ UNCHANGED <<today, gateway, hook, user, login, view, dialogs, modal, net>>

\* addStudent up to its await: nothing is sent for a blank name.
addStudent ==
    /\ ManagerUsable
    /\ Trim(newName) # <<>> =>
          /\ nextId + Cardinality(inserts) < MaxIds
          /\ rosterFetches + Cardinality(inserts) + Cardinality(deletes)
                < MaxRosterRequests
    /\ inserts' = IF Trim(newName) # <<>>
                  THEN inserts \cup {[name |-> Trim(newName), live |-> TRUE]}
                  ELSE inserts
    /\ lastEvent' = "addStudent"
    /\ UNCHANGED <<today, gateway, hook, user, login, view, dialogs, modal, newName,
                   fetches, saves, deletes, nSaves>>

\* The insert succeeds: setNewName(''), onStudentAdded() = fetchStudents().
InsertOk(req) ==
    /\ req \in inserts
    /\ inserts' = inserts \ {req}
    /\ nextId' = nextId + 1
    /\ dbStudents' = dbStudents \cup {[id |-> nextId + 1, name |-> req.name]}
    /\ newName' = IF req.live THEN <<>> ELSE newName
    /\ rosterFetches' = rosterFetches + 1
    /\ lastEvent' = "insertOk"
    /\ UNCHANGED <<today, dbAttendance, students, isLoaded, user, login,
                   view, dialogs, modal, fetches, saves, deletes, nSaves>>

InsertErr(req) ==
    /\ req \in inserts
    /\ inserts' = inserts \ {req}
    /\ lastEvent' = "insertErr"
    /\ UNCHANGED <<today, gateway, hook, user, login, view, dialogs, modal, newName,
                   fetches, saves, deletes, nSaves>>

\* A faulty variant of deleteStudent: the request sent whatever the answer.
deleteStudentUnconfirmed(id, confirmed) ==
    /\ ManagerUsable
    /\ id \in RosterIds(students)
    /\ rosterFetches + Cardinality(inserts) + Cardinality(deletes)
          < MaxRosterRequests
    /\ deletes' = deletes \cup {[id |-> id]}
    /\ lastEvent' = IF confirmed THEN "deleteStudent" ELSE "deleteDeclined"
    /\ UNCHANGED <<today, gateway, hook, user, login, view, dialogs, modal, newName,
                   fetches, saves, inserts, nSaves>>

\* deleteStudent up to its await: window.confirm decides whether to send.
deleteStudent(id, confirmed) ==
    /\ ManagerUsable
    /\ id \in RosterIds(students)
    /\ confirmed => rosterFetches + Cardinality(inserts) + Cardinality(deletes)
                        < MaxRosterRequests
    /\ deletes' = IF confirmed THEN deletes \cup {[id |-> id]} ELSE deletes
    /\ lastEvent' = IF confirmed THEN "deleteStudent" ELSE "deleteDeclined"
    /\ UNCHANGED <<today, gateway, hook, user, login, view, dialogs, modal, newName,
                   fetches, saves, inserts, nSaves>>

\* The delete succeeds: onStudentDeleted() = fetchStudents().
DeleteOk(req) ==
    /\ req \in deletes
    /\ deletes' = deletes \ {req}
    /\ dbStudents' = DeleteStudentRows(dbStudents, req.id)
    /\ dbAttendance' = DeleteAttendanceCascade(dbAttendance, req.id)
    /\ rosterFetches' = rosterFetches + 1
    /\ lastEvent' = "deleteOk"
    /\ UNCHANGED <<today, nextId, students, isLoaded, user, login, view,
                   dialogs, modal, newName, fetches, saves, inserts, nSaves>>

DeleteErr(req) ==
    /\ req \in deletes
    /\ deletes' = deletes \ {req}
    /\ lastEvent' = "deleteErr"
    /\ UNCHANGED <<today, gateway, hook, user, login, view, dialogs, modal, newName,
                   fetches, saves, inserts, nSaves>>

(***************************************************************************)
(* Specifications.  Each takes the steps of one part of the program, from  *)
(* the state after the App's mount.                                        *)
(***************************************************************************)
\* The login screen: every code and selection, and the session it opens.
NextLogin ==
    \/ RosterFetchOk
    \/ RosterFetchErr
    \/ \E c \in CodeInputs : SetTutorCode(c)
    \/ \E id \in 1..MaxIds : SetSelectedStudent(id)
    \/ handleTutorLogin
    \/ handleParentLogin
    \/ handleLogout
    \/ \E req \in fetches : FetchOk(req)
    \/ \E req \in fetches : FetchErr(req)
    \/ OpenStudentManager
    \/ CloseStudentManager
    \/ \E id \in 1..MaxIds : deleteStudent(id, TRUE)
    \/ \E req \in deletes : DeleteOk(req)

SpecLogin == Init /\ [][NextLogin]_vars

\* A session on the calendar: navigation, fetches and edits.
Next ==
    \/ RosterFetchOk
    \/ SetTutorCode(TUTOR_SECRET_CODE)
    \/ \E id \in 1..MaxIds : SetSelectedStudent(id)
    \/ handleTutorLogin
    \/ handleParentLogin
    \/ \E delta \in {-1, 1} : changeMonth(delta)
    \/ \E id \in 1..MaxIds : SelectStudent(id)
    \/ \E day \in 1..MaxEditDay : onDayCellClick(day)
    \/ \E id \in StatusInputs : SetStatus(id)
    \/ \E c \in CommentInputs : SetComment(c)
    \/ CloseModal
    \/ handleSaveAttendance
    \/ \E req \in saves : SaveOk(req)
    \/ \E req \in saves : SaveErr(req)
    \/ \E req \in fetches : FetchOk(req)
    \/ \E req \in fetches : FetchErr(req)
    \/ OpenStudentManager
    \/ CloseStudentManager

Spec == Init /\ [][Next]_vars

\* The roster: the hook's fetches and the StudentManager's requests.
NextRoster ==
    \/ RosterFetchOk
    \/ RosterFetchErr
    \/ SetTutorCode(TUTOR_SECRET_CODE)
    \/ handleTutorLogin
    \/ handleLogout
    \/ \E id \in 1..MaxIds : SelectStudent(id)
    \/ \E req \in fetches : FetchOk(req)
    \/ \E req \in fetches : FetchErr(req)
    \/ OpenStudentManager
    \/ CloseStudentManager
    \/ \E n \in NameInputs : SetNewName(n)
    \/ addStudent
    \/ \E req \in inserts : InsertOk(req)
    \/ \E req \in inserts : InsertErr(req)
    \/ \E id \in 1..MaxIds, confirmed \in BOOLEAN : deleteStudent(id, confirmed)
    \/ \E req \in deletes : DeleteOk(req)
    \/ \E req \in deletes : DeleteErr(req)

SpecRoster == Init /\ [][NextRoster]_vars

\* The calendar on any day: a parent's session, month by month.
NextCalendar ==
    \/ RosterFetchOk
    \/ \E id \in 1..MaxIds : SetSelectedStudent(id)
    \/ handleParentLogin
    \/ \E delta \in {-1, 1} : changeMonth(delta)
    \/ \E req \in fetches : FetchOk(req)

SpecCalendar == InitCalendar /\ [][NextCalendar]_vars

(***************************************************************************)
(* Properties.  They speak of dates and names in their own terms: a date   *)
(* key is spelled out digit by digit, month lengths and weekdays come from *)
(* the civil calendar's rules.                                             *)
(***************************************************************************)
Digit(n) == Digits[n + 1]

\* YYYY-MM-DD for year y, month m in 1..12 and day d.
IsoKey(y, m, d) ==
    << Digit(y \div 1000), Digit((y \div 100) % 10), Digit((y \div 10) % 10),
       Digit(y % 10), "-", Digit(m \div 10), Digit(m % 10), "-",
       Digit(d \div 10), Digit(d % 10) >>

DigitValue(c) == CHOOSE n \in 0..9 : Digit(n) = c

\* The <<year, month 1..12, day>> a key of ten characters spells.
KeyFields(k) ==
    << 1000 * DigitValue(k[1]) + 100 * DigitValue(k[2]) + 10 * DigitValue(k[3])
           + DigitValue(k[4]),
       10 * DigitValue(k[6]) + DigitValue(k[7]),
       10 * DigitValue(k[9]) + DigitValue(k[10]) >>

CivilLeap(y) == IF y % 100 = 0 THEN y % 400 = 0 ELSE y % 4 = 0

\* Days in month m (1..12) of year y.
CivilMonthLength(y, m) ==
    IF m = 2 THEN (IF CivilLeap(y) THEN 29 ELSE 28)
    ELSE IF m \in {4, 6, 9, 11} THEN 30
    ELSE 31

\* The weekday of a civil date, 0 = Sunday (Sakamoto's rule).
CivilWeekday(y, m, d) ==
    LET t  == <<0, 3, 2, 5, 0, 3, 5, 1, 4, 6, 2, 4>>
        yy == IF m < 3 THEN y - 1 ELSE y
    IN  (yy + (yy \div 4) - (yy \div 100) + (yy \div 400) + t[m] + d) % 7

\* Name a sorts no later than name b: equal up to the first place where a
\* ends or holds the lesser character.
NameNotAfter(a, b) ==
    \/ a = b
    \/ \E i \in 1..(Len(b) + 1) :
          /\ i <= Len(a) + 1
          /\ \A j \in 1..(i - 1) : a[j] = b[j]
          /\ \/ i = Len(a) + 1 /\ i <= Len(b)
             \/ i <= Len(a) /\ i <= Len(b) /\ CharRank(a[i]) < CharRank(b[i])

\* The records the gateway holds for a student in a month (1..12) of a year.
RowsOfMonth(rows, s, y, m) ==
    { r \in rows : /\ r.student_id = s
                   /\ r.date[1] = y
                   /\ r.date[2] = m
                   /\ r.date[3] \in 1..CivilMonthLength(y, m) }

\* C1: every key of the attendance mapping is a date of the viewed month and
\* every entry was read or written for the selected student.
C1_AttendanceBelongsToView ==
    Mounted =>
        \A k \in DOMAIN attendance :
            /\ owner[k] = selectedStudentId
            /\ \E d \in 1..31 :
                  k = IsoKey(GetFullYear(currentDate), GetMonth(currentDate) + 1, d)

\* C2: a request is sent for the selected student and the viewed month, and
\* when it succeeds the mapping becomes exactly the gateway's records for
\* that student within that month, each with its status and comment; nothing
\* of the mapping before remains.
C2_Step ==
    /\ \A r \in fetches' \ fetches :
          /\ r.student_id = selectedStudentId'
          /\ r.firstDay = IsoKey(GetFullYear(currentDate'),
                                 GetMonth(currentDate') + 1, 1)
    /\ lastEvent' = "fetchOk" =>
          \E req \in fetches :
             /\ fetches' = fetches \ {req}
             /\ LET ym   == KeyFields(req.firstDay)
                    rows == RowsOfMonth(dbAttendance, req.student_id, ym[1], ym[2])
                IN  /\ DOMAIN attendance' =
                          { IsoKey(r.date[1], r.date[2], r.date[3]) : r \in rows }
                    /\ \A r \in rows :
                          attendance'[IsoKey(r.date[1], r.date[2], r.date[3])]
                              = [status |-> r.status, comment |-> r.comment]

C2_FetchReplacesMapping == [][C2_Step]_vars

\* A fetch has replaced January's entry by February's.
C2_Witness ==
    /\ lastEvent = "fetchOk"
    /\ IsoKey(2024, 2, 1) \in DOMAIN attendance
    /\ IsoKey(2024, 1, 31) \notin DOMAIN attendance

\* C3: when an upsert succeeds the gateway holds exactly one record for the
\* request's student and date, carrying the new status and comment, and its
\* other records are as before; the mapping gains or replaces that date's
\* entry alone; no request is sent.
C3_Step ==
    lastEvent' = "saveOk" =>
        \E req \in saves :
           LET isKey(r) == /\ r.student_id = req.student_id
                           /\ IsoKey(r.date[1], r.date[2], r.date[3]) = req.date
           IN  /\ saves' = saves \ {req}
               /\ Cardinality({ r \in dbAttendance' : isKey(r) }) = 1
               /\ \A r \in dbAttendance' :
                     isKey(r) => r.status = req.status /\ r.comment = req.comment
               /\ { r \in dbAttendance' : ~isKey(r) }
                      = { r \in dbAttendance : ~isKey(r) }
               /\ DOMAIN attendance' = DOMAIN attendance \cup {req.date}
               /\ attendance'[req.date]
                      = [status |-> req.status, comment |-> req.comment]
               /\ \A k \in DOMAIN attendance :
                     k # req.date => attendance'[k] = attendance[k]
               /\ fetches' = fetches
               /\ rosterFetches' = rosterFetches

C3_SaveMergesOneDate == [][C3_Step]_vars

\* An edit of 1 February has replaced the record the gateway held for it.
C3_Witness ==
    /\ lastEvent = "saveOk"
    /\ Cardinality(dbAttendance) = Cardinality(SeedAttendance)
    /\ \E r \in dbAttendance \ SeedAttendance : r.date = <<2024, 2, 1>>
    /\ IsoKey(2024, 2, 1) \in DOMAIN attendance

\* C4: when an upsert is rejected the mapping and the gateway's records are
\* as before, the modal is closed, no day is selected, and nothing is sent
\* again.
C4_Step ==
    lastEvent' = "saveErr" =>
        /\ attendance' = attendance
        /\ dbAttendance' = dbAttendance
        /\ ~isModalOpen'
        /\ selectedDay' = NoDay
        /\ \E req \in saves : saves' = saves \ {req}
        /\ nSaves' = nSaves
        /\ fetches' = fetches

C4_RejectedSaveChangesNothing == [][C4_Step]_vars

\* A rejected edit of a month whose mapping holds an entry.
C4_Witness ==
    /\ lastEvent = "saveErr"
    /\ attendance # EmptyAttendance
    /\ ~isModalOpen
    /\ selectedDay = NoDay

\* C5: from any day of any month, a step of +1 or -1 lands on the first of
\* the adjacent month, across year ends too, and the opposite step from
\* there comes back to the month it left.
C5_MonthNavigation ==
    \A delta \in {-1, 1} :
        LET newDate == NextMonthDate(currentDate, delta)
            y  == GetFullYear(currentDate)
            m  == GetMonth(currentDate)
            back == NextMonthDate(newDate, -delta)
        IN  /\ GetDate(newDate) = 1
            /\ GetMonth(newDate) = (IF delta = 1 THEN (IF m = 11 THEN 0 ELSE m + 1)
                                    ELSE (IF m = 0 THEN 11 ELSE m - 1))
            /\ GetFullYear(newDate) = (IF delta = 1 /\ m = 11 THEN y + 1
                                       ELSE IF delta = -1 /\ m = 0 THEN y - 1
                                       ELSE y)
            /\ GetFullYear(back) = y
            /\ GetMonth(back) = m

\* The next month has been opened from 31 January: it is February.
C5_Witness ==
    /\ lastEvent = "nextMonth"
    /\ GetMonth(today) = 0
    /\ GetDate(today) = 31
    /\ GetMonth(currentDate) = 1
    /\ GetDate(currentDate) = 1

\* C6: the grid is w blank cells and then the day cells 1..n in order, w the
\* weekday of the month's first day (Sunday = 0) and n the days of the month;
\* a day cell carries the mapping's record for its zero-padded date key, or
\* none when the mapping has no such key.
C6_CalendarGrid ==
    LET y == GetFullYear(currentDate)
        m == GetMonth(currentDate) + 1
        w == CivilWeekday(y, m, 1)
        n == CivilMonthLength(y, m)
        grid == Grid
    IN  /\ Len(grid) = w + n
        /\ \A i \in 1..w : grid[i].type = "blank" /\ grid[i].record = {}
        /\ \A d \in 1..n :
              /\ grid[w + d].type = "day"
              /\ grid[w + d].day = d
              /\ grid[w + d].record =
                    (IF IsoKey(y, m, d) \in DOMAIN attendance
                     THEN {attendance[IsoKey(y, m, d)]} ELSE {})

\* February 2024: four blanks, 29 days, and the first day shows its record.
C6_Witness ==
    /\ GetFullYear(currentDate) = 2024
    /\ GetMonth(currentDate) = 1
    /\ Len(Grid) = 4 + 29
    /\ Grid[5].record = {[status |-> "absent", comment |-> ""]}
    /\ Grid[33].day = 29

\* C7: a tutor login opens a tutor session exactly when the code entered is
\* the secret; otherwise no session is opened and an error is shown.
C7_Step ==
    lastEvent' = "tutorLogin" =>
        IF tutorCode = "Tutor2042!"
        THEN user'.role = "tutor"
        ELSE user' = NoUser /\ error' # ""

C7_TutorLogin == [][C7_Step]_vars

\* The secret in lower case has been refused.
C7_Witness ==
    /\ lastEvent = "tutorLogin"
    /\ tutorCode = "tutor2042!"
    /\ user = NoUser
    /\ error # ""

\* C8: a parent login opens a session for student s exactly when the picked
\* value is the id of s in the roster; with nothing picked, or a value the
\* roster no longer holds, no session is opened and an error is shown.
C8_Step ==
    lastEvent' = "parentLogin" =>
        LET matches == { i \in 1..Len(students) : students[i].id = selectedStudent }
        IN  IF matches # {}
            THEN /\ user'.role = "parent"
                 /\ user'.id = selectedStudent
                 /\ \E i \in matches : user'.name = students[i].name
            ELSE user' = NoUser /\ error' # ""

C8_ParentLogin == [][C8_Step]_vars

\* A picked student who has left the roster has been refused.
C8_Witness ==
    /\ lastEvent = "parentLogin"
    /\ selectedStudent # NoId
    /\ selectedStudent \notin RosterIds(students)
    /\ user = NoUser
    /\ error # ""

\* C9: in a parent's session the selected student is the logged-in student,
\* every request in flight reads that student's attendance, no upsert,
\* insert or delete has been sent, the gateway's tables are untouched, and
\* neither the modal nor the student manager is open.
C9_ParentReadOnly ==
    user.role = "parent" =>
        /\ selectedStudentId = user.id
        /\ \A r \in fetches : r.student_id = user.id
        /\ saves = {} /\ inserts = {} /\ deletes = {}
        /\ nSaves = 0
        /\ dbAttendance = SeedAttendance
        /\ dbStudents = SeedStudents
        /\ ~isModalOpen
        /\ selectedDay = NoDay
        /\ ~isStudentManagerOpen

\* A parent has moved to another month and its fetch has arrived.
C9_Witness ==
    /\ user.role = "parent"
    /\ lastEvent = "fetchOk"
    /\ MonthIndex(currentDate) # MonthIndex(today)
    /\ attendance # EmptyAttendance

\* C10 as stated: after a failed roster fetch the stored roster is empty.
C10_EmptyAfterFailure == lastEvent = "rosterErr" => students = <<>>

\* C10: every roster fetch ends with the loaded flag set and the flag is
\* never unset again; a successful fetch stores the gateway's students, each
\* once, in ascending name order; a failed fetch leaves the stored roster as
\* it was.
C10_Step ==
    /\ isLoaded => isLoaded'
    /\ lastEvent' \in {"rosterOk", "rosterErr"} => isLoaded'
    /\ lastEvent' = "rosterOk" =>
          /\ Len(students') = Cardinality(dbStudents)
          /\ { students'[i] : i \in 1..Len(students') } = dbStudents
          /\ \A i \in 1..(Len(students') - 1) :
                NameNotAfter(students'[i].name, students'[i + 1].name)
    /\ lastEvent' = "rosterErr" => students' = students

C10_RosterFetch == [][C10_Step]_vars

\* A refetch has failed and the roster read before is still held.
C10_Witness ==
    /\ lastEvent = "rosterErr"
    /\ isLoaded
    /\ students # <<>>

\* The identities the gateway has assigned and holds no longer.
DeletedIds == (1..nextId) \ { r.id : r \in dbStudents }

\* C11: a declined confirmation sends nothing and changes nothing; a delete
\* request is sent only by a confirmed delete, and a student row leaves the
\* gateway only through such a request, which then starts a roster refetch;
\* when a roster fetch succeeds after that, the stored roster holds no
\* deleted student; an attendance fetch for a deleted student stores no rows.
C11_Step ==
    /\ lastEvent' = "deleteDeclined" =>
          UNCHANGED <<today, gateway, hook, user, login, view, dialogs, modal,
                      newName, net>>
    /\ deletes' \ deletes # {} => lastEvent' = "deleteStudent"
    /\ { r.id : r \in dbStudents } \ { r.id : r \in dbStudents' } # {} =>
          \E req \in deletes :
             /\ deletes' = deletes \ {req}
             /\ { r.id : r \in dbStudents } \ { r.id : r \in dbStudents' } = {req.id}
             /\ rosterFetches' = rosterFetches + 1
    /\ lastEvent' = "rosterOk" =>
          \A id \in DeletedIds : id \notin RosterIds(students')
    /\ lastEvent' = "fetchOk" =>
          \A req \in fetches \ fetches' :
             req.student_id \in DeletedIds => attendance' = EmptyAttendance
    /\ \A r \in dbAttendance' : r.student_id \notin DeletedIds'

C11_DeleteStudent == [][C11_Step]_vars

\* Student 2, who had records, is deleted and gone from the roster, and a
\* fetch for that student has stored nothing.
C11_Witness ==
    /\ lastEvent = "fetchOk"
    /\ DeletedIds = {2}
    /\ nextId = 2
    /\ selectedStudentId = 2
    /\ attendance = EmptyAttendance

\* The name is empty or blanks alone.
IsBlank(name) == \A i \in 1..Len(name) : name[i] = " "

\* t is name without the blanks at its ends.
IsTrimOf(t, name) ==
    \E i, j \in 1..Len(name) :
       /\ i <= j
       /\ name[i] # " " /\ name[j] # " "
       /\ \A k \in 1..Len(name) : (k < i \/ k > j) => name[k] = " "
       /\ t = [k \in 1..(j - i + 1) |-> name[i + k - 1]]

\* C12: Add with a blank name sends nothing and starts no refetch; with any
\* other name it sends one insert carrying the trimmed name alone; a served
\* insert adds one row of that name under a fresh identity and starts one
\* roster refetch; a failed insert starts none and leaves the roster, the
\* name input and the table as they were.
C12_Step ==
    /\ lastEvent' = "addStudent" =>
          /\ UNCHANGED <<gateway, hook, newName, deletes, fetches, saves>>
          /\ IF IsBlank(newName)
             THEN inserts' = inserts
             ELSE \E req \in inserts' :
                     /\ inserts' = inserts \cup {req}
                     /\ DOMAIN req = {"name", "live"}
                     /\ IsTrimOf(req.name, newName)
    /\ lastEvent' = "insertOk" =>
          \E req \in inserts :
             /\ inserts' = inserts \ {req}
             /\ dbStudents \subseteq dbStudents'
             /\ \E row \in dbStudents' :
                   /\ dbStudents' \ dbStudents = {row}
                   /\ row.name = req.name
                   /\ row.id \notin { r.id : r \in dbStudents } \cup DeletedIds
             /\ rosterFetches' = rosterFetches + 1
    /\ lastEvent' = "insertErr" =>
          /\ \E req \in inserts : inserts' = inserts \ {req}
          /\ UNCHANGED <<gateway, hook, newName>>
    /\ rosterFetches' > rosterFetches => lastEvent' \in {"insertOk", "deleteOk"}

C12_AddStudent == [][C12_Step]_vars

\* " Z " has been added: the table holds a third student named "Z".
C12_Witness ==
    /\ lastEvent = "insertOk"
    /\ \E r \in dbStudents : r.id = 3 /\ r.name = <<"Z">>
    /\ newName = <<>>

\* C13: whenever the modal goes from closed to open, the working status and
\* comment are those of the mapping's record for the clicked day of the
\* viewed month, or "present" and the empty comment when the mapping has no
\* record for it, whatever the working values were before.
C13_Step ==
    (~isModalOpen /\ isModalOpen') =>
        LET key == IsoKey(GetFullYear(currentDate'), GetMonth(currentDate') + 1,
                          selectedDay')
        IN  /\ selectedDay' \in 1..CivilMonthLength(GetFullYear(currentDate'),
                                                    GetMonth(currentDate') + 1)
            /\ attendance' = attendance
            /\ IF key \in DOMAIN attendance'
               THEN /\ status' = attendance'[key].status
                    /\ comment' = attendance'[key].comment
               ELSE /\ status' = "present"
                    /\ comment' = ""

C13_ModalSeeding == [][C13_Step]_vars

\* The modal has been opened on 1 January, which has no record, after an
\* edit of 1 February was begun with status "absent" and comment "sick".
C13_Witness ==
    /\ lastEvent = "dayClick"
    /\ isModalOpen
    /\ GetMonth(currentDate) = 0
    /\ IsoKey(2024, 1, 1) \notin DOMAIN attendance
    /\ status = "present"
    /\ comment = ""
    /\ \E req \in saves : req.status = "absent" /\ req.comment = "sick"

\* The mapping that holds exactly the gateway's records of a student in a
\* month (1..12) of a year.
MappingOfMonth(rows, s, y, m) ==
    [k \in { IsoKey(r.date[1], r.date[2], r.date[3]) :
                r \in RowsOfMonth(rows, s, y, m) } |->
        LET r == CHOOSE q \in RowsOfMonth(rows, s, y, m) :
                    IsoKey(q.date[1], q.date[2], q.date[3]) = k
        IN  [status |-> r.status, comment |-> r.comment]]

\* The request is for the selected student and the viewed month.
IsForView(req, sid, date) ==
    /\ req.student_id = sid
    /\ req.firstDay = IsoKey(GetFullYear(date), GetMonth(date) + 1, 1)

\* C14: a change of month or of student starts a fetch for the new view and
\* cancels none in flight; fetches start on navigation, selection, login and
\* roster change alone; a response for a superseded (student, month) that
\* arrives sets the mapping to that student's records of that month, leaves
\* the view as it is and starts no fetch for it.
C14_Step ==
    /\ (lastEvent' \in {"nextMonth", "prevMonth", "selectStudent"}
            /\ selectedStudentId' # NoId) =>
          /\ fetches \subseteq fetches'
          /\ \E r \in fetches' : IsForView(r, selectedStudentId', currentDate')
    /\ fetches' \ fetches # {} =>
          lastEvent' \in {"nextMonth", "prevMonth", "selectStudent", "tutorLogin",
                          "parentLogin", "rosterOk"}
    /\ lastEvent' = "fetchOk" =>
          \E req \in fetches :
             /\ fetches' = fetches \ {req}
             /\ ~IsForView(req, selectedStudentId, currentDate) =>
                   /\ attendance' =
                         MappingOfMonth(dbAttendance, req.student_id,
                                        KeyFields(req.firstDay)[1],
                                        KeyFields(req.firstDay)[2])
                   /\ currentDate' = currentDate
                   /\ selectedStudentId' = selectedStudentId

C14_LastResponseWins == [][C14_Step]_vars

\* February is viewed, nothing is in flight, and the mapping holds January's
\* record: January's response came after February's.
C14_Witness ==
    /\ lastEvent = "fetchOk"
    /\ fetches = {}
    /\ selectedStudentId = 2
    /\ GetMonth(currentDate) = 1
    /\ DOMAIN attendance = {IsoKey(2024, 1, 31)}

\* C15: in a session the loading flag is true in every state in which an
\* attendance fetch is in flight.
C15_FlagCoversFetches == (Mounted /\ fetches # {}) => isLoadingAttendance

\* The upsert req was sent from the edit that is open now: the modal is
\* open on the request's student and date.
IsOpenEdit(req) ==
    /\ isModalOpen
    /\ selectedDay # NoDay
    /\ selectedStudentId = req.student_id
    /\ req.date = IsoKey(GetFullYear(currentDate), GetMonth(currentDate) + 1,
                         selectedDay)

\* The upsert's date lies in the viewed month of the selected student.
IsInView(req) ==
    /\ req.student_id = selectedStudentId
    /\ KeyFields(req.date)[1] = GetFullYear(currentDate)
    /\ KeyFields(req.date)[2] = GetMonth(currentDate) + 1

\* C16: the response to an upsert leaves a modal that is open on another
\* edit open, with its selected day, and merges nothing into a mapping
\* that shows another month or another student.
C16_Step ==
    lastEvent' \in {"saveOk", "saveErr"} =>
        \A req \in saves \ saves' :
            /\ (isModalOpen /\ ~IsOpenEdit(req)) =>
                    isModalOpen' /\ selectedDay' = selectedDay
            /\ ~IsInView(req) => attendance' = attendance

C16_LateResponseIsolated == [][C16_Step]_vars

\* C17: in a tutor's session the selected student is unset or is a member of
\* the stored roster.
C17_SelectionInRoster ==
    isTutor => (selectedStudentId = NoId \/ selectedStudentId \in RosterIds(students))
====
